---------------------------- MODULE Spec2Model ----------------------------
(***************************************************************************)
(* A model of the bytecode machine of src/main.rs: the translator          *)
(* (find_label, find_procedures, parse_instruction, as main chains them)   *)
(* and the interpreter loop (interpret).                                   *)
(*                                                                         *)
(* The source text is a sequence of lines, each a sequence of tokens       *)
(* (strings), as split_whitespace and the blank/comment filter leave it.   *)
(* Instruction addresses are 0-based as in the source; TLA+ sequences are  *)
(* 1-based, so the instruction at address p is instructions[p + 1].        *)
(*                                                                         *)
(* isize and usize are IntBits wide in the model (64 in the build).  An    *)
(* arithmetic overflow panics in a build with overflow checks (debug) and  *)
(* wraps in one without (release): overflow_checks is the build's choice.  *)
(***************************************************************************)
EXTENDS Integers, Sequences, FiniteSets, TLC

(***************************************************************************)
(* Bounds of the model.                                                    *)
(***************************************************************************)
IntBits == 5
MaxLines == 2
MaxArith == 3
MaxBody == 2
MaxProcLines == 4
MaxStack == 6
MaxCalls == 3
MaxOut == 3

VARIABLES
    line_splits,      \* main: the filtered, tokenized source lines
    instructions,     \* main: the translated instruction stream
    status,           \* "loaded" | "translate_error" | "running" | "halted" | "error"
    pointer,          \* interpret: the instruction pointer
    stack,            \* interpret: the operand stack (Stack.0)
    call_stack,       \* interpret: the call stack of StackFrame
    output,           \* what print!/println! have written to stdout
    overflow_checks   \* the build: TRUE panics on overflow, FALSE wraps

vars == <<line_splits, instructions, status, pointer, stack, call_stack,
          output, overflow_checks>>

(***************************************************************************)
(* Integers of the machine.                                                *)
(***************************************************************************)
ISIZE_MIN == -(2 ^ (IntBits - 1))
ISIZE_MAX == (2 ^ (IntBits - 1)) - 1
USIZE_MAX == (2 ^ IntBits) - 1

InIsize(x) == x >= ISIZE_MIN /\ x <= ISIZE_MAX

\* Two's complement wrap-around of a mathematical result into isize.
wrapping(x) == ((x - ISIZE_MIN) % (2 ^ IntBits)) + ISIZE_MIN

Abs(x) == IF x < 0 THEN -x ELSE x

\* A faulty variant of truncating_div: rounds toward minus infinity.
TruncDivFloor(b, a) == b \div a

\* Rust's `/` on integers truncates toward zero (a # 0).
truncating_div(b, a) ==
    IF (b >= 0) = (a > 0) THEN Abs(b) \div Abs(a) ELSE -(Abs(b) \div Abs(a))

None == [ok |-> FALSE]
Some(x) == [ok |-> TRUE, v |-> x]

(***************************************************************************)
(* str::parse.  A numeric token is an optional sign and decimal digits;    *)
(* Decimal gives, for the literals the modelled programs use, the sign     *)
(* character and the magnitude of the digits.  Any other token has a       *)
(* character that is no digit and parses as neither type.                  *)
(***************************************************************************)
Decimal ==
    [t \in {"0", "1", "2", "3", "4", "5", "7", "10", "15", "16", "31", "63",
            "+1", "-1", "-2", "-7", "-16", "-17"} |->
        CASE t = "0" -> [sign |-> "", mag |-> 0]
          [] t = "1" -> [sign |-> "", mag |-> 1]
          [] t = "2" -> [sign |-> "", mag |-> 2]
          [] t = "3" -> [sign |-> "", mag |-> 3]
          [] t = "4" -> [sign |-> "", mag |-> 4]
          [] t = "5" -> [sign |-> "", mag |-> 5]
          [] t = "7" -> [sign |-> "", mag |-> 7]
          [] t = "10" -> [sign |-> "", mag |-> 10]
          [] t = "15" -> [sign |-> "", mag |-> 15]
          [] t = "16" -> [sign |-> "", mag |-> 16]
          [] t = "31" -> [sign |-> "", mag |-> 31]
          [] t = "63" -> [sign |-> "", mag |-> 63]
          [] t = "+1" -> [sign |-> "+", mag |-> 1]
          [] t = "-1" -> [sign |-> "-", mag |-> 1]
          [] t = "-2" -> [sign |-> "-", mag |-> 2]
          [] t = "-7" -> [sign |-> "-", mag |-> 7]
          [] t = "-16" -> [sign |-> "-", mag |-> 16]
          [] t = "-17" -> [sign |-> "-", mag |-> 17]]

\* x.parse::<isize>(): a sign of either kind is accepted; out of range is Err.
parse_isize(t) ==
    IF t \notin DOMAIN Decimal THEN None
    ELSE LET d == Decimal[t]
             x == IF d.sign = "-" THEN -d.mag ELSE d.mag
         IN IF InIsize(x) THEN Some(x) ELSE None

\* A faulty variant of parse_usize: takes a '-' sign and drops it.
UnsignedAcceptsMinus(t) ==
    IF t \notin DOMAIN Decimal THEN None
    ELSE LET d == Decimal[t]
         IN IF d.mag <= USIZE_MAX THEN Some(d.mag) ELSE None

\* p.parse::<Pointer>(): an unsigned type takes no '-' sign.
parse_usize(t) ==
    IF t \notin DOMAIN Decimal THEN None
    ELSE LET d == Decimal[t]
         IN IF d.sign # "-" /\ d.mag <= USIZE_MAX THEN Some(d.mag) ELSE None

(***************************************************************************)
(* BTreeMap: a function on the set of keys; insert replaces.               *)
(***************************************************************************)
EmptyMap == [k \in {} |-> 0]
\* A faulty variant of insert: an entry already present is kept.
InsertKeepsFirst(map, k, v) ==
    [x \in (DOMAIN map) \cup {k} |-> IF x \in DOMAIN map THEN map[x] ELSE v]

insert(map, k, v) == [x \in (DOMAIN map) \cup {k} |-> IF x = k THEN v ELSE map[x]]
get(map, k) == IF k \in DOMAIN map THEN Some(map[k]) ELSE None

(***************************************************************************)
(* The translator.                                                         *)
(***************************************************************************)
\* A faulty variant of find_label: the label is the address after its line.
LabelAtNextLine(i, s) ==
    IF Len(s) = 2 /\ s[1] = "label" THEN Some(<<s[2], i + 1>>) ELSE None

\* find_label(i, s): Some((l, i)) for a line of exactly the tokens label l.
find_label(i, s) ==
    IF Len(s) = 2 /\ s[1] = "label" THEN Some(<<s[2], i>>) ELSE None

\* main: enumerate, filter_map(find_label), collect into the BTreeMap, in
\* line order, so a later declaration of a name replaces an earlier one.
RECURSIVE collect_labels(_, _, _)
collect_labels(lines, i, acc) ==
    IF i >= Len(lines) THEN acc
    ELSE LET f == find_label(i, lines[i + 1])
         IN collect_labels(lines, i + 1,
                IF f.ok THEN insert(acc, f.v[1], f.v[2]) ELSE acc)

Labels(lines) == collect_labels(lines, 0, EmptyMap)

\* The inner loop of find_procedures: advance ip to the first line that is
\* exactly End; indexing past the last line panics.
RECURSIVE scan_to_End(_, _)
scan_to_End(lines, ip) ==
    IF ip >= Len(lines) THEN None
    ELSE IF lines[ip + 1] = <<"End">> THEN Some(ip)
    ELSE scan_to_End(lines, ip + 1)

\* A faulty variant of record_procedure: the exit address is the End itself.
RecordsEndItself(lines, start_ip, ip, res) ==
    insert(res, lines[start_ip + 1][2], <<start_ip, ip>>)

\* res.insert(proc_name, (start_ip, ip + 1))
record_procedure(lines, start_ip, ip, res) ==
    insert(res, lines[start_ip + 1][2], <<start_ip, ip + 1>>)

\* find_procedures, from position ip with the table res: Some(table), or None
\* when the scan for End panics.
RECURSIVE find_procedures_from(_, _, _)
find_procedures_from(lines, ip, res) ==
    IF ip >= Len(lines) THEN Some(res)
    ELSE IF Len(lines[ip + 1]) = 2 /\ lines[ip + 1][1] = "Proc"
    THEN LET e == scan_to_End(lines, ip)
         IN IF ~e.ok THEN None
            ELSE find_procedures_from(lines, e.v,
                                      record_procedure(lines, ip, e.v, res))
    ELSE find_procedures_from(lines, ip + 1, res)

find_procedures(lines) == find_procedures_from(lines, 0, EmptyMap)

Inst(op, arg) == [op |-> op, arg |-> arg]
Noop == Inst("Noop", 0)

NoOperandOps == {"Pop", "Add", "Sub", "Mul", "Div", "Incr", "Decr",
                 "Print", "PrintC", "PrintStack", "Ret"}
LabelOps == {"Jump", "JE", "JNE", "JGE", "JLE", "JGT", "JLT"}
PointerOps == {"Get", "Set", "GetArg", "SetArg", "CollapseRet"}

\* A faulty variant of resolve_label: an undeclared label is address 0.
UndeclaredLabelIsZero(op, l, labels) ==
    IF l \in DOMAIN labels THEN Some(Inst(op, labels[l])) ELSE Some(Inst(op, 0))

\* Jump(*labels.get(l).unwrap()) and the six conditional jumps alike.
resolve_label(op, l, labels) ==
    LET a == get(labels, l) IN IF a.ok THEN Some(Inst(op, a.v)) ELSE None

\* A faulty variant of resolve_call: the target is the Proc line itself.
CallTargetsGuard(proc, procedures) ==
    LET e == get(procedures, proc)
    IN IF e.ok THEN Some(Inst("Call", e.v[1])) ELSE None

\* ["Call", proc] => Call(procedures.get(proc).unwrap().0 + 1)
resolve_call(proc, procedures) ==
    LET e == get(procedures, proc)
    IN IF e.ok THEN Some(Inst("Call", e.v[1] + 1)) ELSE None

\* A faulty variant of resolve_proc: the guard jumps one line too far.
GuardOvershoots(proc, procedures) ==
    LET e == get(procedures, proc)
    IN IF e.ok THEN Some(Inst("Jump", e.v[2] + 1)) ELSE None

\* ["Proc", proc] => Jump(procedures.get(proc).unwrap().1)
resolve_proc(proc, procedures) ==
    LET e == get(procedures, proc)
    IN IF e.ok THEN Some(Inst("Jump", e.v[2])) ELSE None

\* parse_instruction(s, labels, procedures): Some(instruction), or None where
\* the source panics (an unwrap of None or Err, or the last match arm).
parse_instruction(s, labels, procedures) ==
    CASE Len(s) = 2 /\ s[1] = "Push" ->
            LET x == parse_isize(s[2])
            IN IF x.ok THEN Some(Inst("Push", x.v)) ELSE None
      [] Len(s) = 1 /\ s[1] \in NoOperandOps -> Some(Inst(s[1], 0))
      [] Len(s) = 2 /\ s[1] \in LabelOps -> resolve_label(s[1], s[2], labels)
      [] Len(s) = 2 /\ s[1] \in PointerOps ->
            LET p == parse_usize(s[2])
            IN IF p.ok THEN Some(Inst(s[1], p.v)) ELSE None
      [] Len(s) = 2 /\ s[1] = "Proc" -> resolve_proc(s[2], procedures)
      [] Len(s) = 2 /\ s[1] = "Call" -> resolve_call(s[2], procedures)
      [] Len(s) >= 1 /\ s[1] = "label" -> Some(Noop)
      [] s = <<"End">> -> Some(Noop)
      [] OTHER -> None

\* main, from the label table to the instruction vector: Some(instructions),
\* or None when find_procedures or any parse_instruction panics.
translate(lines) ==
    LET labels == Labels(lines)
        procedures == find_procedures(lines)
    IN IF ~procedures.ok THEN None
       ELSE LET parsed == [k \in 1..Len(lines) |->
                              parse_instruction(lines[k], labels, procedures.v)]
            IN IF \E k \in 1..Len(lines) : ~parsed[k].ok THEN None
               ELSE Some([k \in 1..Len(lines) |-> parsed[k].v])

(***************************************************************************)
(* The machine.  A machine value m holds the locals of interpret together  *)
(* with what has been written to stdout and whether the process has        *)
(* panicked; the operators below are the arms of interpret's match, each   *)
(* applied after `pointer += 1`.                                           *)
(***************************************************************************)
panic(m) == [m EXCEPT !.status = "error"]

\* Stack::push
push(m, v) == [m EXCEPT !.stack = Append(@, v)]

\* A faulty variant of pop: an empty stack yields 0 instead of a panic.
PopEmptyYieldsZero(m) ==
    IF m.stack = <<>> THEN [m |-> m, v |-> 0]
    ELSE [m |-> [m EXCEPT !.stack = SubSeq(@, 1, Len(@) - 1)],
          v |-> m.stack[Len(m.stack)]]

\* Stack::pop: the machine afterwards and the value; panics when empty.
pop(m) ==
    IF m.stack = <<>> THEN [m |-> panic(m), v |-> 0]
    ELSE [m |-> [m EXCEPT !.stack = SubSeq(@, 1, Len(@) - 1)],
          v |-> m.stack[Len(m.stack)]]

\* Stack::peek / Stack::peek_mut: defined on a non-empty stack.
peek(m) == m.stack[Len(m.stack)]

\* Vec::truncate(len): keeps the first len elements, no effect when shorter.
truncate(s, len) == IF len >= Len(s) THEN s ELSE SubSeq(s, 1, len)

\* Push the isize result x of +, - or * (or += 1, -= 1): out of range, the
\* build with overflow checks panics and the build without wraps.
push_arith(m, x) ==
    IF InIsize(x) THEN push(m, x)
    ELSE IF m.checks THEN panic(m)
    ELSE push(m, wrapping(x))

\* The usize sum a + b of an index computation: Some(index), or None when the
\* sum overflows in a build with overflow checks.
usize_add(m, a, b) ==
    IF a + b <= USIZE_MAX THEN Some(a + b)
    ELSE IF m.checks THEN None
    ELSE Some((a + b) % (2 ^ IntBits))

\* The usize difference a - 1 - b of an index computation: Some(index), or
\* None when it underflows in a build with overflow checks.  Without them the
\* difference wraps to 2^w - k.
usize_arg_index(m, a, b) ==
    IF a - 1 - b >= 0 THEN Some(a - 1 - b)
    ELSE IF m.checks THEN None
    ELSE Some((2 ^ IntBits) + (a - 1 - b))

\* The usize difference a - b of sf.stack_offset - p.
usize_sub(m, a, b) ==
    IF a - b >= 0 THEN Some(a - b)
    ELSE IF m.checks THEN None
    ELSE Some((2 ^ IntBits) + (a - b))

exec_Push(m, d) == push(m, d)

exec_Pop(m) == pop(m).m

\* let (a, b) = (stack.pop(), stack.pop()): a first, then b.
pop2(m) ==
    LET pa == pop(m)
    IN IF pa.m.status = "error" THEN [m |-> pa.m, a |-> 0, b |-> 0]
       ELSE LET pb == pop(pa.m)
            IN [m |-> pb.m, a |-> pa.v, b |-> pb.v]

\* stack.push(a + b)
exec_Add(m) ==
    LET r == pop2(m)
    IN IF r.m.status = "error" THEN r.m ELSE push_arith(r.m, r.a + r.b)

\* A faulty variant of exec_Sub: a - b, the operands the wrong way round.
SubFirstMinusSecond(m) ==
    LET r == pop2(m)
    IN IF r.m.status = "error" THEN r.m ELSE push_arith(r.m, r.a - r.b)

\* stack.push(b - a)
exec_Sub(m) ==
    LET r == pop2(m)
    IN IF r.m.status = "error" THEN r.m ELSE push_arith(r.m, r.b - r.a)

\* stack.push(a * b)
exec_Mul(m) ==
    LET r == pop2(m)
    IN IF r.m.status = "error" THEN r.m ELSE push_arith(r.m, r.a * r.b)

\* b / a panics for a = 0 and for isize::MIN / -1, in every build.
exec_Div(m) ==
    LET r == pop2(m)
    IN IF r.m.status = "error" THEN r.m
       ELSE IF r.a = 0 THEN panic(r.m)
       ELSE IF r.b = ISIZE_MIN /\ r.a = -1 THEN panic(r.m)
       ELSE push(r.m, truncating_div(r.b, r.a))

\* A faulty variant of exec_Incr: adds 2.
IncrAddsTwo(m) ==
    IF m.stack = <<>> THEN panic(m) ELSE push_arith(pop(m).m, peek(m) + 2)

\* *stack.peek_mut() += 1
exec_Incr(m) ==
    IF m.stack = <<>> THEN panic(m) ELSE push_arith(pop(m).m, peek(m) + 1)

\* *stack.peek_mut() -= 1
exec_Decr(m) ==
    IF m.stack = <<>> THEN panic(m) ELSE push_arith(pop(m).m, peek(m) - 1)

exec_Jump(m, p) == [m EXCEPT !.pointer = p]

\* A faulty variant of jump_if: a taken jump leaves the top on the stack.
JumpKeepsTop(m, p, taken) ==
    IF taken THEN [m EXCEPT !.pointer = p] ELSE m

\* The body shared by the six conditional jumps once the top has been peeked:
\* if the condition held, stack.pop() and pointer = *p.
jump_if(m, p, taken) ==
    IF taken THEN [pop(m).m EXCEPT !.pointer = p] ELSE m

exec_JE(m, p) == IF m.stack = <<>> THEN panic(m) ELSE jump_if(m, p, peek(m) = 0)
exec_JNE(m, p) == IF m.stack = <<>> THEN panic(m) ELSE jump_if(m, p, peek(m) # 0)
exec_JGT(m, p) == IF m.stack = <<>> THEN panic(m) ELSE jump_if(m, p, peek(m) > 0)
exec_JLT(m, p) == IF m.stack = <<>> THEN panic(m) ELSE jump_if(m, p, peek(m) < 0)
exec_JGE(m, p) == IF m.stack = <<>> THEN panic(m) ELSE jump_if(m, p, peek(m) >= 0)
exec_JLE(m, p) == IF m.stack = <<>> THEN panic(m) ELSE jump_if(m, p, peek(m) <= 0)

\* call_stack.last().map_or(0, |s| s.stack_offset)
frame_offset(m) ==
    IF m.call_stack = <<>> THEN 0
    ELSE m.call_stack[Len(m.call_stack)].stack_offset

\* stack.0.get(i + offset).unwrap(), pushed.
exec_Get(m, i) ==
    LET idx == usize_add(m, i, frame_offset(m))
    IN IF ~idx.ok THEN panic(m)
       ELSE IF idx.v >= Len(m.stack) THEN panic(m)
       ELSE push(m, m.stack[idx.v + 1])

\* The assigned value stack.peek() is evaluated first, then the place
\* stack.0.get_mut(i + offset).unwrap().
exec_Set(m, i) ==
    IF m.stack = <<>> THEN panic(m)
    ELSE LET idx == usize_add(m, i, frame_offset(m))
         IN IF ~idx.ok THEN panic(m)
            ELSE IF idx.v >= Len(m.stack) THEN panic(m)
            ELSE [m EXCEPT !.stack[idx.v + 1] = peek(m)]

\* A faulty variant of exec_GetArg: indexes upward from the frame, as Get.
GetArgReadsLocal(m, i) ==
    IF m.call_stack = <<>> THEN panic(m)
    ELSE LET idx == usize_add(m, i, frame_offset(m))
         IN IF ~idx.ok THEN panic(m)
            ELSE IF idx.v >= Len(m.stack) THEN panic(m)
            ELSE push(m, m.stack[idx.v + 1])

\* stack.0.get(call_stack.last().unwrap().stack_offset - 1 - i).unwrap(), pushed.
exec_GetArg(m, i) ==
    IF m.call_stack = <<>> THEN panic(m)
    ELSE LET idx == usize_arg_index(m, frame_offset(m), i)
         IN IF ~idx.ok THEN panic(m)
            ELSE IF idx.v >= Len(m.stack) THEN panic(m)
            ELSE push(m, m.stack[idx.v + 1])

\* offset_i, then new_val = stack.peek(), then the store at offset_i.
exec_SetArg(m, i) ==
    IF m.call_stack = <<>> THEN panic(m)
    ELSE LET idx == usize_arg_index(m, frame_offset(m), i)
         IN IF ~idx.ok THEN panic(m)
            ELSE IF m.stack = <<>> THEN panic(m)
            ELSE IF idx.v >= Len(m.stack) THEN panic(m)
            ELSE [m EXCEPT !.stack[idx.v + 1] = peek(m)]

\* print!("{}", stack.peek())
exec_Print(m) ==
    IF m.stack = <<>> THEN panic(m)
    ELSE [m EXCEPT !.output = Append(@, [display |-> ToString(peek(m))])]

\* print!("{}", stack.peek() as u8 as char): the low eight bits as a char.
exec_PrintC(m) ==
    IF m.stack = <<>> THEN panic(m)
    ELSE [m EXCEPT !.output = Append(@, [char |-> peek(m) % 256])]

\* println!("{:?}", stack.0)
exec_PrintStack(m) == [m EXCEPT !.output = Append(@, [debug |-> m.stack])]

\* A faulty variant of exec_Call: the frame saves the target, not the return.
CallSavesTarget(m, p) ==
    [m EXCEPT !.call_stack =
                  Append(@, [stack_offset |-> Len(m.stack), ip |-> p]),
              !.pointer = p]

\* The frame holds the stack length and the pointer, already past the Call.
exec_Call(m, p) ==
    [m EXCEPT !.call_stack =
                  Append(@, [stack_offset |-> Len(m.stack), ip |-> m.pointer]),
              !.pointer = p]

\* pointer = call_stack.pop().unwrap().ip
exec_Ret(m) ==
    IF m.call_stack = <<>> THEN panic(m)
    ELSE [m EXCEPT !.pointer = m.call_stack[Len(m.call_stack)].ip,
                   !.call_stack = SubSeq(@, 1, Len(@) - 1)]

\* A faulty variant of exec_CollapseRet: the stack is not truncated.
CollapseKeepsLocals(m, p) ==
    IF m.call_stack = <<>> THEN panic(m)
    ELSE LET sf == m.call_stack[Len(m.call_stack)]
             m1 == [m EXCEPT !.call_stack = SubSeq(@, 1, Len(@) - 1)]
             pv == pop(m1)
         IN IF pv.m.status = "error" THEN pv.m
            ELSE LET idx == usize_arg_index(pv.m, sf.stack_offset, p)
                 IN IF ~idx.ok THEN panic(pv.m)
                    ELSE IF idx.v >= Len(pv.m.stack) THEN panic(pv.m)
                    ELSE [pv.m EXCEPT !.stack[idx.v + 1] = pv.v,
                                      !.pointer = sf.ip]

\* sf = call_stack.pop().unwrap(); v = stack.pop(); the slot at
\* sf.stack_offset - 1 - p takes v; truncate to sf.stack_offset - p;
\* pointer = sf.ip.
exec_CollapseRet(m, p) ==
    IF m.call_stack = <<>> THEN panic(m)
    ELSE LET sf == m.call_stack[Len(m.call_stack)]
             m1 == [m EXCEPT !.call_stack = SubSeq(@, 1, Len(@) - 1)]
             pv == pop(m1)
         IN IF pv.m.status = "error" THEN pv.m
            ELSE LET idx == usize_arg_index(pv.m, sf.stack_offset, p)
                     len == usize_sub(pv.m, sf.stack_offset, p)
                 IN IF ~idx.ok THEN panic(pv.m)
                    ELSE IF idx.v >= Len(pv.m.stack) THEN panic(pv.m)
                    ELSE IF ~len.ok THEN panic(pv.m)
                    ELSE [pv.m EXCEPT
                            !.stack = truncate([@ EXCEPT ![idx.v + 1] = pv.v],
                                               len.v),
                            !.pointer = sf.ip]

\* match instruction { ... }
execute(inst, m) ==
    CASE inst.op = "Noop" -> m
      [] inst.op = "Push" -> exec_Push(m, inst.arg)
      [] inst.op = "Pop" -> exec_Pop(m)
      [] inst.op = "Add" -> exec_Add(m)
      [] inst.op = "Sub" -> exec_Sub(m)
      [] inst.op = "Mul" -> exec_Mul(m)
      [] inst.op = "Div" -> exec_Div(m)
      [] inst.op = "Incr" -> exec_Incr(m)
      [] inst.op = "Decr" -> exec_Decr(m)
      [] inst.op = "Jump" -> exec_Jump(m, inst.arg)
      [] inst.op = "JE" -> exec_JE(m, inst.arg)
      [] inst.op = "JNE" -> exec_JNE(m, inst.arg)
      [] inst.op = "JGT" -> exec_JGT(m, inst.arg)
      [] inst.op = "JLT" -> exec_JLT(m, inst.arg)
      [] inst.op = "JGE" -> exec_JGE(m, inst.arg)
      [] inst.op = "JLE" -> exec_JLE(m, inst.arg)
      [] inst.op = "Get" -> exec_Get(m, inst.arg)
      [] inst.op = "Set" -> exec_Set(m, inst.arg)
      [] inst.op = "GetArg" -> exec_GetArg(m, inst.arg)
      [] inst.op = "SetArg" -> exec_SetArg(m, inst.arg)
      [] inst.op = "Print" -> exec_Print(m)
      [] inst.op = "PrintC" -> exec_PrintC(m)
      [] inst.op = "PrintStack" -> exec_PrintStack(m)
      [] inst.op = "Call" -> exec_Call(m, inst.arg)
      [] inst.op = "Ret" -> exec_Ret(m)
      [] inst.op = "CollapseRet" -> exec_CollapseRet(m, inst.arg)

\* A faulty variant of iteration: the pointer is not advanced before the match.
IterationKeepsPointer(program, m) == execute(program[m.pointer + 1], m)

\* One iteration of interpret's loop on a fetched instruction:
\* pointer += 1, then the match.
iteration(program, m) ==
    execute(program[m.pointer + 1], [m EXCEPT !.pointer = @ + 1])

(***************************************************************************)
(* The programs the model runs: every short program over the whole         *)
(* language (well-formed or not), every short arithmetic program, two-     *)
(* operator arithmetic programs, a caller with a procedure of every short  *)
(* body, every short arrangement of procedure and label lines, and the     *)
(* documented scenarios.                                                   *)
(***************************************************************************)
SeqsUpTo(S, n) == UNION {[1..k -> S] : k \in 0..n}

LineAlphabet ==
    {<<"Push", t>> : t \in {"0", "1", "-1", "x"}}
    \cup {<<op>> : op \in NoOperandOps}
    \cup {<<op, "L">> : op \in LabelOps}
    \cup {<<op, t>> : op \in PointerOps, t \in {"0", "1"}}
    \cup {<<"Get", "-1">>, <<"Proc", "f">>, <<"Call", "f">>, <<"End">>,
          <<"label", "L">>, <<"Halt">>, <<"Pop", "1">>}

ShortPrograms == SeqsUpTo(LineAlphabet, MaxLines)

ArithOps == {"Add", "Sub", "Mul", "Div"}

ArithAlphabet ==
    {<<"Push", t>> : t \in {"-16", "-1", "0", "2", "7", "15"}}
    \cup {<<op>> : op \in ArithOps}

ArithPrograms == SeqsUpTo(ArithAlphabet, MaxArith)

TwoOperatorPrograms ==
    LET lits == {"-7", "2", "3"}
    IN {<<<<"Push", a>>, <<"Push", b>>, <<o1>>, <<"Push", c>>, <<o2>>>> :
            a \in lits, b \in lits, c \in lits, o1 \in ArithOps, o2 \in ArithOps}
       \cup
       {<<<<"Push", a>>, <<"Push", b>>, <<"Push", c>>, <<o1>>, <<o2>>>> :
            a \in lits, b \in lits, c \in lits, o1 \in ArithOps, o2 \in ArithOps}

BodyAlphabet ==
    {<<"Push", "1">>, <<"GetArg", "0">>, <<"GetArg", "1">>, <<"SetArg", "0">>,
     <<"Get", "0">>, <<"Set", "0">>, <<"Add">>, <<"Incr">>, <<"Pop">>,
     <<"Ret">>, <<"CollapseRet", "0">>, <<"CollapseRet", "1">>,
     <<"Call", "f">>, <<"Print">>}

CallPrograms ==
    LET callers == {<<<<"Push", "5">>, <<"Call", "f">>, <<"Print">>>>,
                    <<<<"Push", "3">>, <<"Push", "5">>, <<"Call", "f">>,
                      <<"Print">>>>}
        procs == {<<<<"Proc", "f">>>> \o body \o <<<<"End">>>> :
                      body \in SeqsUpTo(BodyAlphabet, MaxBody)}
    IN {c \o q : c \in callers, q \in procs}
       \cup {q \o c : c \in callers, q \in procs}

ProcAlphabet ==
    {<<"Proc", "f">>, <<"Proc", "g">>, <<"End">>, <<"Call", "f">>,
     <<"Push", "1">>, <<"label", "L">>, <<"Jump", "L">>, <<"Ret">>}

ProcPrograms == SeqsUpTo(ProcAlphabet, MaxProcLines)

DoubleProc(p) ==
    <<<<"Proc", "double">>, <<"GetArg", "0">>, <<"GetArg", "0">>, <<"Add">>,
      <<"CollapseRet", p>>, <<"End">>>>

DoubleCaller == <<<<"Push", "5">>, <<"Call", "double">>, <<"Print">>>>

DivProgram(b, a) == <<<<"Push", b>>, <<"Push", a>>, <<"Div">>, <<"Print">>>>

IncrDecrPrograms ==
    {<<<<"Push", t>>, <<o1>>, <<o2>>>> :
        t \in {"-16", "-1", "0", "3", "15"}, o1 \in {"Incr", "Decr"},
        o2 \in {"Incr", "Decr"}}
    \cup {<<<<"Push", "2">>, <<"Push", t>>, <<o1>>, <<o2>>>> :
        t \in {"-16", "0", "15"}, o1 \in {"Incr", "Decr"},
        o2 \in {"Incr", "Decr"}}

JumpPrograms ==
    {<<<<"Push", "4">>, <<"Push", t>>, <<j, "L">>, <<"Print">>, <<"label", "L">>,
       <<"PrintStack">>>> : t \in {"-1", "0", "1"}, j \in LabelOps}
    \cup
    {<<<<"label", "L">>, <<"Push", t>>, <<j, "L">>, <<"Print">>>> :
        t \in {"-1", "0", "1"}, j \in LabelOps}

\* Locals read and written inside a call, with indices up to the greatest
\* usize of the two widths the bounds give.
FrameIndexPrograms ==
    {<<<<"Push", "3">>, <<"Push", "5">>, <<"Call", "f">>, <<"Proc", "f">>,
       <<"Push", "1">>, <<"Push", "2">>, <<op, t>>, <<"Get", "0">>, <<"End">>>> :
        op \in {"Get", "Set"}, t \in {"0", "1", "2", "31", "63"}}

\* Arguments read, written and collapsed inside a call entered on a stack
\* of none or one, with indices up to the greatest usize.
ArgIndexPrograms ==
    {pre \o <<<<"Call", "f">>, <<"Proc", "f">>, <<"Push", "1">>,
               <<"Push", "2">>, <<op, t>>, <<"End">>>> :
        pre \in {<<>>, <<<<"Push", "5">>>>},
        op \in {"GetArg", "SetArg", "CollapseRet"},
        t \in {"0", "1", "31", "63"}}

ScenarioPrograms ==
    {<<<<"Push", "3">>, <<"Push", "4">>, <<"Add">>, <<"Print">>>>,
     DivProgram("10", "3"), DivProgram("-7", "2"), DivProgram("7", "-2"),
     DivProgram("-7", "-2"), DivProgram("7", "0"), DivProgram("-16", "-1"),
     DoubleProc("1") \o DoubleCaller, DoubleCaller \o DoubleProc("1"),
     DoubleProc("0") \o DoubleCaller, DoubleCaller \o DoubleProc("0"),
     <<<<"Push", "1">>, <<"Print">>, <<"Pop">>, <<"Pop">>, <<"Print">>>>,
     <<<<"Push", "1">>, <<"Print">>, <<"Jump", "nowhere">>>>,
     <<<<"label", "L">>, <<"Call", "f">>, <<"Proc", "f">>, <<"End">>,
       <<"label", "L">>, <<"Proc", "f">>, <<"Jump", "L">>, <<"End">>>>,
     <<<<"Proc", "f">>, <<"End">>, <<"Proc", "g">>, <<"Proc", "f">>, <<"End">>,
       <<"Call", "f">>>>,
     <<<<"Proc", "f">>, <<"End">>, <<"Jump", "L">>, <<"Proc", "g">>,
       <<"label", "L">>, <<"Proc", "f">>, <<"End">>>>,
     <<<<"Push", "0">>, <<"JNE", "L">>, <<"Print">>, <<"JE", "L">>, <<"Print">>,
       <<"label", "L">>, <<"PrintStack">>>>}

Programs ==
    ShortPrograms \cup ArithPrograms \cup TwoOperatorPrograms
    \cup CallPrograms \cup ProcPrograms \cup IncrDecrPrograms
    \cup JumpPrograms \cup FrameIndexPrograms
    \cup ArgIndexPrograms \cup ScenarioPrograms

(***************************************************************************)
(* The state machine.                                                      *)
(***************************************************************************)
\* The locals of interpret, stdout and the fate of the process, as one value.
Machine ==
    [pointer |-> pointer, stack |-> stack, call_stack |-> call_stack,
     output |-> output, status |-> status, checks |-> overflow_checks]

\* The stacks and the output are unbounded in the source; the model follows a
\* run only while they stay within the bounds.
WithinBounds(m) ==
    /\ Len(m.stack) <= MaxStack
    /\ Len(m.call_stack) <= MaxCalls
    /\ Len(m.output) <= MaxOut

\* The process has been started on a program file; nothing has run.
Init ==
    /\ line_splits \in Programs
    /\ overflow_checks \in BOOLEAN
    /\ instructions = <<>>
    /\ status = "loaded"
    /\ pointer = 0
    /\ stack = <<>>
    /\ call_stack = <<>>
    /\ output = <<>>

\* main up to the call of interpret: the whole program is translated, or the
\* process panics before interpret is entered.
Translate ==
    /\ status = "loaded"
    /\ LET t == translate(line_splits)
       IN IF t.ok
          THEN instructions' = t.v /\ status' = "running"
          ELSE instructions' = instructions /\ status' = "translate_error"
    /\ UNCHANGED <<line_splits, pointer, stack, call_stack, output,
                   overflow_checks>>

\* One iteration of `while let Some(instruction) = program.get(pointer)`.
Step ==
    /\ status = "running"
    /\ pointer < Len(instructions)
    /\ LET m == iteration(instructions, Machine)
       IN /\ WithinBounds(m)
          /\ pointer' = m.pointer
          /\ stack' = m.stack
          /\ call_stack' = m.call_stack
          /\ output' = m.output
          /\ status' = m.status
    /\ UNCHANGED <<line_splits, instructions, overflow_checks>>

\* program.get(pointer) is None: the loop ends and main returns Ok(()).
Halt ==
    /\ status = "running"
    /\ pointer >= Len(instructions)
    /\ status' = "halted"
    /\ UNCHANGED <<line_splits, instructions, pointer, stack, call_stack,
                   output, overflow_checks>>

Next == Translate \/ Step \/ Halt

Spec == Init /\ [][Next]_vars

\* The process is single-threaded and runs to completion: while a step of
\* main or of the loop is possible, one is taken.
FairSpec == Spec /\ WF_vars(Next)

(***************************************************************************)
(* Properties.                                                             *)
(***************************************************************************)
\* The loop is about to fetch the instruction Fetched.
Fetching == status = "running" /\ pointer < Len(instructions)
Fetched == instructions[pointer + 1]
Top(s) == s[Len(s)]
Front(s) == SubSeq(s, 1, Len(s) - 1)

\* The quotient of b by a # 0 truncated toward zero: the q with b = q*a + r,
\* |r| < |a| and r zero or of the sign of b.
Quotient(b, a) ==
    CHOOSE q \in -Abs(b)..Abs(b) :
        LET r == b - q * a
        IN Abs(r) < Abs(a) /\ (r = 0 \/ (r > 0) = (b > 0))

\* Left-to-right postfix evaluation over the mathematical integers of the
\* first k instructions: the stack, and whether no operator found fewer than
\* two operands or a zero divisor.
RECURSIVE Postfix(_, _)
Postfix(program, k) ==
    IF k = 0 THEN [ok |-> TRUE, st |-> <<>>]
    ELSE LET before == Postfix(program, k - 1)
             i == program[k]
             s == before.st
             n == Len(s)
         IN IF ~before.ok THEN before
            ELSE IF i.op = "Push" THEN [ok |-> TRUE, st |-> Append(s, i.arg)]
            ELSE IF n < 2 THEN [ok |-> FALSE, st |-> s]
            ELSE LET first == s[n]
                     second == s[n - 1]
                     rest == SubSeq(s, 1, n - 2)
                 IN CASE i.op = "Add" ->
                            [ok |-> TRUE, st |-> Append(rest, first + second)]
                      [] i.op = "Mul" ->
                            [ok |-> TRUE, st |-> Append(rest, first * second)]
                      [] i.op = "Sub" ->
                            [ok |-> TRUE, st |-> Append(rest, second - first)]
                      [] i.op = "Div" ->
                            IF first = 0 THEN [ok |-> FALSE, st |-> s]
                            ELSE [ok |-> TRUE,
                                  st |-> Append(rest, Quotient(second, first))]

ArithmeticOnly ==
    /\ status \in {"running", "halted", "error"}
    /\ \A k \in 1..Len(instructions) :
           instructions[k].op \in {"Push", "Add", "Sub", "Mul", "Div"}

WellFormedArithmetic ==
    ArithmeticOnly /\ Postfix(instructions, Len(instructions)).ok

\* Every value the evaluation produces is an isize.
Representable ==
    \A k \in 1..Len(instructions) :
        \A j \in 1..Len(Postfix(instructions, k).st) :
            InIsize(Postfix(instructions, k).st[j])

FollowsPostfix ==
    /\ status \in {"running", "halted"}
    /\ stack = Postfix(instructions, pointer).st
    /\ status = "halted" => pointer = Len(instructions)

\* C1 as stated: an arithmetic program that never pops an empty stack or
\* divides by zero never fails, and after k instructions the stack is the
\* postfix evaluation of the first k (so at the halt its top is the result,
\* and each operator has taken the depth down by one).
C1_AsStated == WellFormedArithmetic => FollowsPostfix

\* C1, amended: the same, for programs all of whose intermediate results
\* are representable in isize; and such a run does come to its normal halt.
C1_PostfixEvaluation ==
    /\ []((WellFormedArithmetic /\ Representable) => FollowsPostfix)
    /\ (WellFormedArithmetic /\ Representable) ~> (status = "halted")

\* A two-operator program with Sub and Div has halted on (-7 - 2) / 3 = -3.
C1_Witness ==
    /\ line_splits = <<<<"Push", "-7">>, <<"Push", "2">>, <<"Sub">>,
                       <<"Push", "3">>, <<"Div">>>>
    /\ status = "halted"
    /\ stack = <<-3>>

CondOps == {"JE", "JNE", "JGT", "JLT", "JGE", "JLE"}

Holds(op, t) ==
    CASE op = "JE" -> t = 0
      [] op = "JNE" -> t # 0
      [] op = "JGT" -> t > 0
      [] op = "JLT" -> t < 0
      [] op = "JGE" -> t >= 0
      [] op = "JLE" -> t <= 0

CondJumpStep ==
    (Fetching /\ Fetched.op \in CondOps /\ stack # <<>>) =>
        /\ status' = "running"
        /\ call_stack' = call_stack
        /\ IF Holds(Fetched.op, Top(stack))
           THEN stack' = Front(stack) /\ pointer' = Fetched.arg
           ELSE stack' = stack /\ pointer' = pointer + 1

\* C2: a conditional jump on a non-empty stack pops the top and goes to addr
\* when its condition holds of the top, and otherwise leaves the stack as it
\* is and goes on to the next instruction.
C2_ConditionalJump == [][CondJumpStep]_vars

\* Push 0, JNE L (not taken: the 0 is printed), JE L (taken: the second
\* Print is skipped, the 0 is gone), label L, PrintStack.
C2_Witness ==
    /\ line_splits = <<<<"Push", "0">>, <<"JNE", "L">>, <<"Print">>,
                       <<"JE", "L">>, <<"Print">>, <<"label", "L">>,
                       <<"PrintStack">>>>
    /\ status = "halted"
    /\ output = <<[display |-> "0"], [debug |-> <<>>]>>

CallStep ==
    (Fetching /\ Fetched.op = "Call") =>
        /\ stack' = stack
        /\ call_stack' = Append(call_stack, [stack_offset |-> Len(stack),
                                             ip |-> pointer + 1])
        /\ pointer' = Fetched.arg
        /\ status' = "running"

RetStep ==
    (Fetching /\ Fetched.op = "Ret" /\ call_stack # <<>>) =>
        /\ stack' = stack
        /\ call_stack' = Front(call_stack)
        /\ pointer' = Top(call_stack).ip
        /\ status' = "running"

\* No step rewrites a frame below the top, and the depth changes by at most
\* one, so the frame a Ret pops is the one the matching Call pushed.
FramesKept ==
    /\ Len(call_stack') \in {Len(call_stack) - 1, Len(call_stack),
                             Len(call_stack) + 1}
    /\ \A d \in 1..Len(call_stack) :
           d <= Len(call_stack') => call_stack'[d] = call_stack[d]

\* C3: Call at c pushes the frame (stack length, c + 1) and touches no operand;
\* frames stay as pushed; Ret pops the top frame, goes to its address and
\* touches no operand.
C3_CallThenRet == [][CallStep /\ RetStep /\ FramesKept]_vars

\* Push 5, Call f, Print with f = Push 1, Ret: back after the Call, at depth
\* 0, with the callee's 1 still on the stack.
C3_Witness ==
    /\ line_splits = <<<<"Push", "5">>, <<"Call", "f">>, <<"Print">>,
                       <<"Proc", "f">>, <<"Push", "1">>, <<"Ret">>, <<"End">>>>
    /\ status = "running"
    /\ pointer = 2
    /\ call_stack = <<>>
    /\ stack = <<5, 1>>

\* Every frame's return address is one past a Call instruction.
FramesFromCalls ==
    \A d \in 1..Len(call_stack) :
        /\ call_stack[d].ip \in 1..Len(instructions)
        /\ instructions[call_stack[d].ip].op = "Call"

CollapseRetStep ==
    (Fetching /\ Fetched.op = "CollapseRet" /\ call_stack # <<>>
        /\ status' = "running") =>
        LET s == Top(call_stack).stack_offset
            p == Fetched.arg
        IN /\ FramesFromCalls
           /\ stack # <<>>
           /\ Len(stack') = s - p
           /\ s - p >= 1
           /\ stack'[s - p] = Top(stack)
           /\ \A i \in 1..(s - p - 1) : stack'[i] = stack[i]
           /\ pointer' = Top(call_stack).ip
           /\ call_stack' = Front(call_stack)

\* C4: a CollapseRet(p) that completes, popping a frame of offset s, leaves
\* s - p elements, the last the former top, the ones below untouched, and
\* goes to the frame's return address, which is one past a Call.
C4_CallThenCollapseRet == [][CollapseRetStep]_vars

\* Push 3, Push 5, Call f, Print with f = Push 1, CollapseRet 0: s = 2, the 1
\* has replaced argument 0 and the 3 below is as it was.
C4_Witness ==
    /\ line_splits = <<<<"Push", "3">>, <<"Push", "5">>, <<"Call", "f">>,
                       <<"Print">>, <<"Proc", "f">>, <<"Push", "1">>,
                       <<"CollapseRet", "0">>, <<"End">>>>
    /\ status = "running"
    /\ pointer = 3
    /\ call_stack = <<>>
    /\ stack = <<3, 1>>

\* Lines of the source by 0-based position, as the translator numbers them.
Line(k) == line_splits[k + 1]
IsProcLine(k) == Len(Line(k)) = 2 /\ Line(k)[1] = "Proc"
IsCallLine(k) == Len(Line(k)) = 2 /\ Line(k)[1] = "Call"
IsEndLine(k) == Line(k) = <<"End">>
Positions == 0..(Len(line_splits) - 1)
ProcPositions == {k \in Positions : IsProcLine(k)}

HasLaterEnd(s) == \E e \in Positions : e > s /\ IsEndLine(e)

\* The End that closes the Proc at s: the first End-only line after it.
MatchingEnd(s) ==
    CHOOSE e \in Positions :
        e > s /\ IsEndLine(e) /\ \A x \in Positions : (x > s /\ x < e) => ~IsEndLine(x)

\* Every Proc has its End, no Proc lies inside another's block, and no two
\* Procs bear the same name.
ProperBlocks ==
    /\ \A s \in ProcPositions : HasLaterEnd(s)
    /\ \A s \in ProcPositions, t \in ProcPositions :
           ~(s < t /\ t < MatchingEnd(s))
    /\ \A s \in ProcPositions, t \in ProcPositions :
           s # t => Line(s)[2] # Line(t)[2]

ProcGuardStep ==
    (ProperBlocks /\ Fetching /\ IsProcLine(pointer)) =>
        /\ pointer' = MatchingEnd(pointer) + 1
        /\ stack' = stack
        /\ call_stack' = call_stack
        /\ output' = output
        /\ status' = "running"

CallEntryStep ==
    (ProperBlocks /\ Fetching /\ IsCallLine(pointer)) =>
        \E s \in ProcPositions :
            /\ Line(s)[2] = Line(pointer)[2]
            /\ pointer' = s + 1
            /\ status' = "running"

\* C5: with proper Proc/End blocks, the step taken at a Proc line goes to the
\* line after its End and changes nothing else, and the step taken at a
\* Call <name> goes to the line after Proc <name>.
C5_ProcGuardAndEntry == [][ProcGuardStep /\ CallEntryStep]_vars

\* Proc f, Push 1, End, Call f: the guard has skipped the body (nothing was
\* pushed) and the Call has entered at the Push.
C5_Witness ==
    /\ line_splits = <<<<"Proc", "f">>, <<"Push", "1">>, <<"End">>,
                       <<"Call", "f">>>>
    /\ status = "running"
    /\ pointer = 1
    /\ stack = <<>>
    /\ call_stack = <<[stack_offset |-> 0, ip |-> 4]>>

\* The run of a program is sound so far and, once past its Call with the
\* frame popped, the stack is <<10>>; at the halt 10 has been written.
DoubleRun(call_at) ==
    /\ status # "error"
    /\ status # "translate_error"
    /\ (status \in {"running", "halted"} /\ call_stack = <<>>
            /\ pointer > call_at) => stack = <<10>>
    /\ status = "halted" => output = <<[display |-> "10"]>>

\* C6 as stated, with CollapseRet 1, the procedure before or after the caller.
C6_AsStated ==
    /\ line_splits = DoubleProc("1") \o DoubleCaller => DoubleRun(7)
    /\ line_splits = DoubleCaller \o DoubleProc("1") => DoubleRun(1)

\* C6, amended: with CollapseRet 0 the program runs without a fatal error,
\* has depth 1 (the 10) after the call returns, and writes 10.
C6_Double ==
    /\ line_splits = DoubleProc("0") \o DoubleCaller => DoubleRun(7)
    /\ line_splits = DoubleCaller \o DoubleProc("0") => DoubleRun(1)

C6_Witness ==
    /\ line_splits = DoubleCaller \o DoubleProc("0")
    /\ status = "halted"
    /\ stack = <<10>>
    /\ output = <<[display |-> "10"]>>

FrameOffset == IF call_stack = <<>> THEN 0 ELSE Top(call_stack).stack_offset

\* The failures C7 lists, of the instruction about to be fetched.
PopsOrPeeksEmpty ==
    \/ /\ Fetched.op \in {"Pop", "Incr", "Decr", "Print", "PrintC", "Set",
                          "SetArg"} \cup CondOps
       /\ stack = <<>>
    \/ Fetched.op \in {"Add", "Sub", "Mul", "Div"} /\ Len(stack) < 2
    \/ Fetched.op = "CollapseRet" /\ call_stack # <<>> /\ stack = <<>>

ReturnsWithoutFrame ==
    Fetched.op \in {"Ret", "CollapseRet"} /\ call_stack = <<>>

\* The index an instruction accesses is a usize: the value of its index
\* expression modulo 2^w.
AsUsize(x) == x % (2 ^ IntBits)

IndexOutOfRange ==
    \/ /\ Fetched.op \in {"Get", "Set"}
       /\ AsUsize(FrameOffset + Fetched.arg) >= Len(stack)
    \/ /\ Fetched.op \in {"GetArg", "SetArg"}
       /\ call_stack # <<>>
       /\ AsUsize(FrameOffset - 1 - Fetched.arg) >= Len(stack)
    \/ /\ Fetched.op = "CollapseRet"
       /\ call_stack # <<>>
       /\ stack # <<>>
       /\ AsUsize(FrameOffset - 1 - Fetched.arg) >= Len(stack) - 1

DividesByZero ==
    Fetched.op = "Div" /\ Len(stack) >= 2 /\ Top(stack) = 0

FatalStep ==
    (Fetching /\ (PopsOrPeeksEmpty \/ ReturnsWithoutFrame \/ IndexOutOfRange
                    \/ DividesByZero)) =>
        status' = "error" /\ output' = output

AfterFailure == status = "error" => UNCHANGED vars

Recognized(l) ==
    \/ Len(l) = 1 /\ l[1] \in NoOperandOps \cup {"End"}
    \/ Len(l) = 2 /\ l[1] \in {"Push", "Proc", "Call"} \cup LabelOps \cup PointerOps
    \/ Len(l) >= 1 /\ l[1] = "label"

BadOperand(l) ==
    /\ Len(l) = 2
    /\ \/ l[1] = "Push" /\ ~parse_isize(l[2]).ok
       \/ l[1] \in PointerOps /\ ~parse_usize(l[2]).ok
       \/ l[1] \in PointerOps /\ l[2] \in DOMAIN Decimal /\ Decimal[l[2]].sign = "-"

Declared(name) == \E k \in Positions : Line(k) = <<"label", name>>

UndeclaredLabel(l) == Len(l) = 2 /\ l[1] \in LabelOps /\ ~Declared(l[2])

AbsentProcedure(l) ==
    /\ Len(l) = 2
    /\ l[1] \in {"Proc", "Call"}
    /\ find_procedures(line_splits).ok
    /\ l[2] \notin DOMAIN find_procedures(line_splits).v

Faulty ==
    \E k \in Positions :
        \/ ~Recognized(Line(k))
        \/ BadOperand(Line(k))
        \/ UndeclaredLabel(Line(k))
        \/ AbsentProcedure(Line(k))
        \/ IsProcLine(k) /\ ~HasLaterEnd(k)

\* C8: a program with a faulty line anywhere is never run: interpret is not
\* entered, no instruction executes and nothing is written.
C8_TranslationAllOrNothing ==
    Faulty =>
        /\ status \in {"loaded", "translate_error"}
        /\ instructions = <<>>
        /\ pointer = 0
        /\ stack = <<>>
        /\ call_stack = <<>>
        /\ output = <<>>

\* Push 1, Print, Jump nowhere: the fault is on the last line, after a Print
\* that would have run first; translation has failed with nothing written.
C8_Witness ==
    /\ line_splits = <<<<"Push", "1">>, <<"Print">>, <<"Jump", "nowhere">>>>
    /\ status = "translate_error"
    /\ output = <<>>

\* The machine after the next instruction, and after the next two.
AfterOne == iteration(instructions, Machine)
AfterTwo == iteration(instructions, AfterOne)

NextIs(op) == Fetching /\ Fetched.op = op

NextTwoAre(op1, op2) ==
    /\ NextIs(op1)
    /\ pointer + 1 < Len(instructions)
    /\ instructions[pointer + 2].op = op2

TopChangedBy(m, d) ==
    /\ m.status = "running"
    /\ m.stack = [stack EXCEPT ![Len(stack)] = @ + d]
    /\ m.pointer = pointer + 1
    /\ m.call_stack = call_stack
    /\ m.output = output

PairRestores(m) ==
    m.status = "running" /\ m.stack = stack /\ m.pointer = pointer + 2

\* C9 as stated: on any non-empty stack Incr adds one to the top and Decr
\* takes one from it, touching nothing else, and Incr, Decr or Decr, Incr in
\* a row leave the stack as it was.
C9_AsStated ==
    stack # <<>> =>
        /\ NextIs("Incr") => TopChangedBy(AfterOne, 1)
        /\ NextIs("Decr") => TopChangedBy(AfterOne, -1)
        /\ NextTwoAre("Incr", "Decr") => PairRestores(AfterTwo)
        /\ NextTwoAre("Decr", "Incr") => PairRestores(AfterTwo)

\* C9, amended: the same, unless Incr meets a top of isize::MAX or Decr a top
\* of isize::MIN.
C9_IncrDecr ==
    stack # <<>> =>
        /\ (NextIs("Incr") /\ Top(stack) # ISIZE_MAX) =>
               TopChangedBy(AfterOne, 1)
        /\ (NextIs("Decr") /\ Top(stack) # ISIZE_MIN) =>
               TopChangedBy(AfterOne, -1)
        /\ (NextTwoAre("Incr", "Decr") /\ Top(stack) # ISIZE_MAX) =>
               PairRestores(AfterTwo)
        /\ (NextTwoAre("Decr", "Incr") /\ Top(stack) # ISIZE_MIN) =>
               PairRestores(AfterTwo)

\* Push 2, Push 0, Incr, Decr has run to its end: the stack is as it was
\* before the pair.
C9_Witness ==
    /\ line_splits = <<<<"Push", "2">>, <<"Push", "0">>, <<"Incr">>,
                       <<"Decr">>>>
    /\ status = "halted"
    /\ stack = <<2, 0>>

DivPushesQuotient(m) ==
    /\ m.status = "running"
    /\ m.stack = Append(SubSeq(stack, 1, Len(stack) - 2),
                        Quotient(stack[Len(stack) - 1], Top(stack)))

DivIsFatal(m) ==
    /\ m.status = "error"
    /\ Len(m.stack) <= Len(stack) - 2
    /\ m.output = output

\* C10 as stated: Div replaces b, a (a on top) by the quotient of b by a
\* truncated toward zero whenever a # 0, and is fatal, pushing nothing, when
\* a = 0.
C10_AsStated ==
    (NextIs("Div") /\ Len(stack) >= 2) =>
        IF Top(stack) = 0 THEN DivIsFatal(AfterOne)
        ELSE DivPushesQuotient(AfterOne)

\* C10, amended: the same, except that isize::MIN divided by -1, whose
\* quotient is no isize, is fatal too and pushes nothing.
C10_Div ==
    (NextIs("Div") /\ Len(stack) >= 2) =>
        IF Top(stack) = 0 \/ (stack[Len(stack) - 1] = ISIZE_MIN /\ Top(stack) = -1)
        THEN DivIsFatal(AfterOne)
        ELSE DivPushesQuotient(AfterOne)

\* Push -7, Push 2, Div, Print has halted having written -3.
C10_Witness ==
    /\ line_splits = DivProgram("-7", "2")
    /\ status = "halted"
    /\ stack = <<-3>>
    /\ output = <<[display |-> "-3"]>>

Translated == status \in {"running", "halted", "error"}

IsLabelLine(k) == Len(Line(k)) = 2 /\ Line(k)[1] = "label"
IsJumpTo(j, name) ==
    Len(Line(j)) = 2 /\ Line(j)[1] \in LabelOps /\ Line(j)[2] = name

\* The instruction at address k is the one line k stands for: a no-op for a
\* label or End line, a jump for a Proc line, the line's own opcode otherwise.
FromItsLine(k) ==
    LET l == Line(k)
        i == instructions[k + 1]
    IN IF l[1] = "label" \/ l = <<"End">> THEN i = Noop
       ELSE IF l[1] = "Proc" THEN i.op = "Jump"
       ELSE i.op = l[1]

OnePerLine ==
    /\ Len(instructions) = Len(line_splits)
    /\ \A k \in Positions : FromItsLine(k)

\* Every jump to the label declared at line k carries the address k.
JumpsCarry(k) ==
    \A j \in Positions :
        IsJumpTo(j, Line(k)[2]) => instructions[j + 1] = Inst(Line(j)[1], k)

LastDeclaration(k) ==
    IsLabelLine(k) /\ \A x \in Positions : x > k => Line(x) # Line(k)

\* C11 as stated: one instruction per line in line order, label and End
\* lines no-ops at their own address, and every jump to a label carrying the
\* position of the label's line, for every label line.
C11_AsStated ==
    Translated =>
        /\ OnePerLine
        /\ \A k \in Positions : IsLabelLine(k) => JumpsCarry(k)

\* C11, amended: the same, the address a jump carries being the position of
\* the last line that declares the label.
C11_OneInstructionPerLine ==
    Translated =>
        /\ OnePerLine
        /\ \A k \in Positions : LastDeclaration(k) => JumpsCarry(k)

\* Jump L, label L, Jump L: both jumps, before and after the label, carry 1.
C11_Witness ==
    /\ line_splits = <<<<"Jump", "L">>, <<"label", "L">>, <<"Jump", "L">>>>
    /\ status = "running"
    /\ instructions = <<Inst("Jump", 1), Noop, Inst("Jump", 1)>>

\* The Proc lines the scan of find_procedures reaches: those that lie in no
\* block of an earlier reached Proc line.
RECURSIVE Reached(_)
Reached(s) ==
    /\ IsProcLine(s)
    /\ \A t \in ProcPositions :
           (t < s /\ Reached(t)) => (HasLaterEnd(t) /\ MatchingEnd(t) < s)

ReachedProcs == {s \in ProcPositions : Reached(s)}

\* The table as it stands when the scan has passed the End of the Proc at s.
TableAfter(s) ==
    find_procedures(SubSeq(line_splits, 1, MatchingEnd(s) + 1)).v

\* The scan records (s, e + 1) at the End of a reached Proc line, and the
\* finished table has entries for the names of reached Proc lines only.
Recording ==
    /\ \A s \in ReachedProcs :
           TableAfter(s)[Line(s)[2]] = <<s, MatchingEnd(s) + 1>>
    /\ DOMAIN find_procedures(line_splits).v
           = {Line(s)[2] : s \in ReachedProcs}

\* The Proc line at s is a jump past its End and every Call of its name
\* enters at s + 1.
CompiledFrom(s) ==
    /\ instructions[s + 1] = Inst("Jump", MatchingEnd(s) + 1)
    /\ \A j \in Positions :
           (IsCallLine(j) /\ Line(j)[2] = Line(s)[2])
               => instructions[j + 1] = Inst("Call", s + 1)

LastReached(s) ==
    /\ Reached(s)
    /\ \A t \in ReachedProcs : t > s => Line(t)[2] # Line(s)[2]

\* C12 as stated: the scan records (s, e + 1) for every Proc line it reaches
\* and skips the Proc lines inside the block, and every reached Proc line
\* compiles to Jump(e + 1) and every Call of its name to Call(s + 1).
C12_AsStated ==
    Translated => (Recording /\ \A s \in ReachedProcs : CompiledFrom(s))

\* C12, amended: the recording as stated; the compiled Jump(e + 1) and
\* Call(s + 1) are those of the last reached Proc line of the name.
C12_ProcedureDiscovery ==
    Translated =>
        (Recording /\ \A s \in Positions : LastReached(s) => CompiledFrom(s))

\* Call f, Proc f, End, Call f: the Call before the declaration and the Call
\* after it both enter at 2, and the guard jumps to 3.
C12_Witness ==
    /\ line_splits = <<<<"Call", "f">>, <<"Proc", "f">>, <<"End">>,
                       <<"Call", "f">>>>
    /\ status = "running"
    /\ instructions = <<Inst("Call", 2), Inst("Jump", 3), Noop,
                        Inst("Call", 2)>>

\* The slot f + i of the Get or Set about to be fetched.
FrameSlot == FrameOffset + Fetched.arg

PushesCopy(slot) ==
    /\ status' = "running"
    /\ stack' = Append(stack, stack[slot + 1])
    /\ call_stack' = call_stack
    /\ pointer' = pointer + 1

OverwritesWithTop(slot) ==
    /\ status' = "running"
    /\ stack' = [stack EXCEPT ![slot + 1] = Top(stack)]
    /\ call_stack' = call_stack
    /\ pointer' = pointer + 1

IsFatal == status' = "error" /\ output' = output

\* C13: Get(i) pushes a copy of slot f + i and Set(i) overwrites it with
\* the top, nothing else changing, and either is fatal when f + i is not an
\* index of the stack.
C13_GetSet ==
    [][(Fetching /\ Fetched.op \in {"Get", "Set"}) =>
          IF FrameSlot < Len(stack)
          THEN /\ Fetched.op = "Get" => PushesCopy(FrameSlot)
               /\ Fetched.op = "Set" => OverwritesWithTop(FrameSlot)
          ELSE IsFatal]_vars

\* The slot s - 1 - i of the GetArg or SetArg about to be fetched.
ArgSlot == FrameOffset - 1 - Fetched.arg

\* A Call records the length of the stack, so that slot s - 1 is the top of
\* the stack at the Call and slot s - 1 - i the value i slots below it.
CallRecordsDepth ==
    (Fetching /\ Fetched.op = "Call") =>
        Top(call_stack').stack_offset = Len(stack)

\* C14: inside a call of stack_offset s, GetArg(i) pushes a copy of slot
\* s - 1 - i and SetArg(i) overwrites it with the top, whatever the callee has
\* pushed since; with an empty call stack, or with i >= s, either is fatal.
C14_GetArgSetArg ==
    [][/\ CallRecordsDepth
       /\ (Fetching /\ Fetched.op \in {"GetArg", "SetArg"}) =>
             IF call_stack = <<>> \/ Fetched.arg >= FrameOffset THEN IsFatal
             ELSE ArgSlot < Len(stack) =>
                     /\ Fetched.op = "GetArg" => PushesCopy(ArgSlot)
                     /\ Fetched.op = "SetArg" => OverwritesWithTop(ArgSlot)]_vars

TargetOps == {"Jump"} \cup CondOps

\* C15: of an accepted program of N instructions, the pointer is in 0..N,
\* every return address is in 1..N, every jump target is at most N and every
\* Call target less than N, and the machine has halted only at pointer N.
C15_PointerInRange ==
    Translated =>
        LET N == Len(instructions)
        IN /\ pointer \in 0..N
           /\ \A d \in 1..Len(call_stack) : call_stack[d].ip \in 1..N
           /\ \A k \in 1..N :
                  /\ instructions[k].op \in TargetOps => instructions[k].arg <= N
                  /\ instructions[k].op = "Call" => instructions[k].arg < N
           /\ status = "halted" => pointer = N

\* Call f, Proc f, End: the call has entered at 2 with return address 1 and
\* the run has fallen off the End to halt at 3 = N.
C15_Witness ==
    /\ line_splits = <<<<"Call", "f">>, <<"Proc", "f">>, <<"End">>>>
    /\ status = "halted"
    /\ pointer = 3
    /\ call_stack = <<[stack_offset |-> 0, ip |-> 1]>>

\* C16: a CollapseRet(p) that pops a frame of offset s and completes had
\* p <= s - 1 and at least s - p + 1 elements on the stack; CollapseRet(0)
\* on a stack of exactly s elements is fatal.
C16_CollapseRetNeeds ==
    [][(Fetching /\ Fetched.op = "CollapseRet" /\ call_stack # <<>>) =>
          LET s == Top(call_stack).stack_offset
              p == Fetched.arg
          IN /\ status' = "running" =>
                    (p <= s - 1 /\ Len(stack) >= s - p + 1)
             /\ (p = 0 /\ Len(stack) = s) => IsFatal]_vars

\* Another line of the program reads the same as line k.
DeclaredAgain(k) == \E x \in Positions : x # k /\ Line(x) = Line(k)
LastOfItsName(k) == \A x \in Positions : x > k => Line(x) # Line(k)

\* A fault of translation other than a repeated declaration.
OtherFault ==
    \E k \in Positions :
        \/ ~Recognized(Line(k))
        \/ BadOperand(Line(k))
        \/ UndeclaredLabel(Line(k))
        \/ /\ Len(Line(k)) = 2
           /\ Line(k)[1] \in {"Proc", "Call"}
           /\ Line(k)[2] \notin {Line(s)[2] : s \in ReachedProcs}
        \/ Reached(k) /\ ~HasLaterEnd(k)

DuplicatesAccepted == status = "translate_error" => OtherFault

\* Every Call of the name declared at Proc line k enters at k + 1 and every
\* Proc line of the name jumps to one past the End of k.
ResolvesToProc(k) ==
    \A j \in Positions :
        /\ (IsCallLine(j) /\ Line(j)[2] = Line(k)[2])
               => instructions[j + 1] = Inst("Call", k + 1)
        /\ (IsProcLine(j) /\ Line(j)[2] = Line(k)[2])
               => instructions[j + 1] = Inst("Jump", MatchingEnd(k) + 1)

\* C17 as stated: repeated declarations are no translation error; jumps to a
\* repeated label carry the position of its last declaration, and Calls and
\* Proc guards of a repeated procedure name resolve to its last Proc line.
C17_AsStated ==
    /\ DuplicatesAccepted
    /\ Translated =>
          \A k \in Positions :
              (DeclaredAgain(k) /\ LastOfItsName(k)) =>
                  /\ IsLabelLine(k) => JumpsCarry(k)
                  /\ IsProcLine(k) => ResolvesToProc(k)

\* C17, amended: for procedures, the last declaration is the last Proc line
\* of the name that the scan of procedure discovery reaches.
C17_LastDeclarationWins ==
    /\ DuplicatesAccepted
    /\ Translated =>
          \A k \in Positions :
              DeclaredAgain(k) =>
                  /\ (IsLabelLine(k) /\ LastOfItsName(k)) => JumpsCarry(k)
                  /\ (IsProcLine(k) /\ LastReached(k)) => ResolvesToProc(k)

\* label L, Call f, Proc f, End, label L, Proc f, Jump L, End: the jump
\* carries 4, the Call enters at 6 and both guards jump to 8.
C17_Witness ==
    /\ line_splits = <<<<"label", "L">>, <<"Call", "f">>, <<"Proc", "f">>,
                       <<"End">>, <<"label", "L">>, <<"Proc", "f">>,
                       <<"Jump", "L">>, <<"End">>>>
    /\ Translated
    /\ instructions = <<Noop, Inst("Call", 6), Inst("Jump", 8), Noop, Noop,
                        Inst("Jump", 8), Inst("Jump", 4), Noop>>

NoCalls == \A k \in Positions : ~IsCallLine(k)

JumpsForward ==
    \A j \in Positions :
        (Len(Line(j)) = 2 /\ Line(j)[1] \in LabelOps) =>
            \E k \in Positions : k > j /\ Line(k) = <<"label", Line(j)[2]>>

NoProcInsideBlock == \A s \in ProcPositions : Reached(s)

Advances == Fetching => pointer' > pointer

Terminated == status \in {"halted", "error"}

ForwardAsStated == Translated /\ NoCalls /\ JumpsForward
ForwardOnly == ForwardAsStated /\ NoProcInsideBlock

\* C18 as stated: a translated program with no Call whose jumps all target
\* labels declared further on advances the pointer at every step, never
\* past N, and terminates.
C18_AsStated ==
    /\ [][ForwardAsStated => Advances]_vars
    /\ [](ForwardAsStated => pointer <= Len(instructions))
    /\ (ForwardAsStated ~> Terminated)

\* C18, amended: the same of a program in which, besides, no Proc line lies
\* inside the block of another Proc line.
C18_ForwardOnlyTerminates ==
    /\ [][ForwardOnly => Advances]_vars
    /\ [](ForwardOnly => pointer <= Len(instructions))
    /\ (ForwardOnly ~> Terminated)

\* Push 4, Push 0, JE L, Print, label L, PrintStack: the taken jump has
\* skipped the Print and the run has halted at N = 6.
C18_Witness ==
    /\ line_splits = <<<<"Push", "4">>, <<"Push", "0">>, <<"JE", "L">>,
                       <<"Print">>, <<"label", "L">>, <<"PrintStack">>>>
    /\ status = "halted"
    /\ pointer = 6
    /\ output = <<[debug |-> <<4>>]>>

=============================================================================
